---- MODULE Spec2Model ----
(***************************************************************************)
(* Model of streamlit_app.py: the implied CCL exchange rate (GGAL local    *)
(* share over GGAL ADR, times 10), joined as-of backward with a monthly    *)
(* price index (IPC from datos.gob.ar with the 2025 extension table, or    *)
(* the CPI table) and re-expressed at the prices of the anchor index.     *)
(*                                                                         *)
(* Dates are integers yyyymmdd, so the integer order is the calendar       *)
(* order.  Column values are floating-point numbers in the program; the    *)
(* program only multiplies and divides them and compares them with zero,   *)
(* so a value is kept exactly as a sign and a prime factorisation          *)
(* (real-valued arithmetic, no rounding), together with the IEEE special   *)
(* values NaN, +inf and -inf that division by zero and missing data        *)
(* produce in pandas.                                                      *)
(***************************************************************************)
EXTENDS Integers, Sequences, FiniteSets, TLC

\* ------------------------------------------------------------------------
\* Numbers: [k, s, f]  k in {"num","zero","inf","nan"}, s the sign (1 / -1),
\* f the set of <<prime, exponent>> pairs with a non-zero exponent.
\* ------------------------------------------------------------------------
NaN == [k |-> "nan", s |-> 1, f |-> {}]

Zero == [k |-> "zero", s |-> 1, f |-> {}]

Inf(sg) == [k |-> "inf", s |-> sg, f |-> {}]

\* the integer square root of n >= 1
Isqrt(n) == CHOOSE r \in 1..n : r <= n \div r /\ (r + 1) > n \div (r + 1)

\* the divisors of n >= 1
Divisors(n) ==
    LET small == {d \in 1..Isqrt(n) : n % d = 0}
    IN  small \cup {n \div d : d \in small}

\* the primes among the divisors ds of a number
PrimesAmong(ds) ==
    {p \in ds \ {1} : \A d \in ds : (d # 1 /\ d # p) => p % d # 0}

\* the prime factorisation of n >= 1 as a set of <<prime, exponent>>: the
\* exponent of p is the number of divisors of n that are powers of p
Factorise(n) ==
    LET ds == Divisors(n)
        ps == PrimesAmong(ds)
    IN  {<<p, Cardinality({d \in ds \ {1} : \A q \in ps \ {p} : d % q # 0})>> : p \in ps}

\* the float holding the integer n
FromInt(n) ==
    IF n = 0 THEN Zero
    ELSE IF n > 0 THEN [k |-> "num", s |-> 1, f |-> Factorise(n)]
    ELSE [k |-> "num", s |-> -1, f |-> Factorise(-n)]

ExpOf(f, p) == IF \E x \in f : x[1] = p THEN (CHOOSE x \in f : x[1] = p)[2] ELSE 0

PrimesOf(f) == {x[1] : x \in f}

\* exponents of f plus sg times the exponents of g
Combine(f, g, sg) ==
    {<<p, ExpOf(f, p) + sg * ExpOf(g, p)>> : p \in
        {q \in PrimesOf(f) \cup PrimesOf(g) : ExpOf(f, q) + sg * ExpOf(g, q) # 0}}

\* a * b on floats
Mul(a, b) ==
    IF a.k = "nan" \/ b.k = "nan" THEN NaN
    ELSE IF a.k = "inf" \/ b.k = "inf"
         THEN IF a.k = "zero" \/ b.k = "zero" THEN NaN ELSE Inf(a.s * b.s)
    ELSE IF a.k = "zero" \/ b.k = "zero" THEN Zero
    ELSE [k |-> "num", s |-> a.s * b.s, f |-> Combine(a.f, b.f, 1)]

\* a / b on floats (numpy semantics: x/0 is +-inf, 0/0 is NaN, no exception)
Div(a, b) ==
    IF a.k = "nan" \/ b.k = "nan" THEN NaN
    ELSE IF b.k = "zero"
         THEN IF a.k = "zero" THEN NaN ELSE Inf(a.s)
    ELSE IF b.k = "inf"
         THEN IF a.k = "inf" THEN NaN ELSE Zero
    ELSE IF a.k = "inf" THEN Inf(a.s * b.s)
    ELSE IF a.k = "zero" THEN Zero
    ELSE [k |-> "num", s |-> a.s * b.s, f |-> Combine(a.f, b.f, -1)]

\* a > 0 on floats (False for NaN)
IsPositive(a) == a.k \in {"num", "inf"} /\ a.s = 1

IsNaN(a) == a.k = "nan"

\* the decimal literal n/d, e.g. 233.707 is Dec(233707, 1000)
Dec(n, d) == Div(FromInt(n), FromInt(d))

\* ------------------------------------------------------------------------
\* Data frames: a frame is a sequence of rows (records); a function that
\* returns None or a frame returns [some, rows].
\* ------------------------------------------------------------------------
None == [some |-> FALSE, rows |-> <<>>]

Frame(rows) == [some |-> TRUE, rows |-> rows]

\* df.empty
IsEmpty(rows) == Len(rows) = 0

\* df[mask]: the rows satisfying Keep, in order
SelectRows(rows, Keep(_)) == SelectSeq(rows, Keep)

\* the position of row i after a stable ascending sort by fecha
RankByFecha(rows, i) ==
    1 + Cardinality({j \in 1..Len(rows) :
            rows[j].fecha < rows[i].fecha \/ (rows[j].fecha = rows[i].fecha /\ j < i)})

\* rows are ascending by fecha
IsSortedByFecha(rows) == \A i \in 1..(Len(rows) - 1) : rows[i].fecha <= rows[i + 1].fecha

\* df.sort_values('fecha'): ascending by fecha, rows with equal fecha keep
\* their order (numpy's sort of a short array is an insertion sort); a sorted
\* frame is returned as it is, which is what the stable sort gives
sort_values(rows) ==
    IF IsSortedByFecha(rows) THEN rows
    ELSE [k \in 1..Len(rows) |-> rows[CHOOSE i \in 1..Len(rows) : RankByFecha(rows, i) = k]]

\* a JSON / table cell: a number, or a missing (null, non-numeric) cell
RawNum(n) == [t |-> "num", v |-> n]

RawNull == [t |-> "null", v |-> 0]

\* pd.to_numeric(..., errors='coerce') and the float column of a price table
to_numeric(raw) == IF raw.t = "num" THEN FromInt(raw.v) ELSE NaN

\* ------------------------------------------------------------------------
\* get_cpi_usa
\* ------------------------------------------------------------------------
datos_cpi ==
    << <<20150101, 233707>>, <<20150201, 234722>>, <<20150301, 236119>>, <<20150401, 236599>>,
       <<20150501, 237805>>, <<20150601, 238638>>, <<20150701, 238654>>, <<20150801, 238316>>,
       <<20150901, 237945>>, <<20151001, 237838>>, <<20151101, 237336>>, <<20151201, 236525>>,
       <<20160101, 236916>>, <<20160201, 237111>>, <<20160301, 238132>>, <<20160401, 239261>>,
       <<20160501, 240229>>, <<20160601, 241018>>, <<20160701, 240628>>, <<20160801, 240849>>,
       <<20160901, 241428>>, <<20161001, 241729>>, <<20161101, 241353>>, <<20161201, 241432>>,
       <<20170101, 242839>>, <<20170201, 243603>>, <<20170301, 243801>>, <<20170401, 244524>>,
       <<20170501, 244733>>, <<20170601, 244955>>, <<20170701, 244786>>, <<20170801, 245519>>,
       <<20170901, 246819>>, <<20171001, 246663>>, <<20171101, 246669>>, <<20171201, 246524>>,
       <<20180101, 247867>>, <<20180201, 248991>>, <<20180301, 249554>>, <<20180401, 250546>>,
       <<20180501, 251588>>, <<20180601, 251989>>, <<20180701, 252006>>, <<20180801, 252146>>,
       <<20180901, 252439>>, <<20181001, 252885>>, <<20181101, 252038>>, <<20181201, 251233>>,
       <<20190101, 251712>>, <<20190201, 252776>>, <<20190301, 254202>>, <<20190401, 255548>>,
       <<20190501, 256092>>, <<20190601, 256143>>, <<20190701, 256571>>, <<20190801, 256558>>,
       <<20190901, 256759>>, <<20191001, 257346>>, <<20191101, 257208>>, <<20191201, 256974>>,
       <<20200101, 257971>>, <<20200201, 258678>>, <<20200301, 258115>>, <<20200401, 256389>>,
       <<20200501, 256394>>, <<20200601, 257797>>, <<20200701, 259101>>, <<20200801, 259918>>,
       <<20200901, 260280>>, <<20201001, 260388>>, <<20201101, 260229>>, <<20201201, 260474>>,
       <<20210101, 261582>>, <<20210201, 263014>>, <<20210301, 264877>>, <<20210401, 267054>>,
       <<20210501, 269195>>, <<20210601, 271696>>, <<20210701, 273003>>, <<20210801, 273567>>,
       <<20210901, 274310>>, <<20211001, 276589>>, <<20211101, 277948>>, <<20211201, 278802>>,
       <<20220101, 281148>>, <<20220201, 283716>>, <<20220301, 287708>>, <<20220401, 289109>>,
       <<20220501, 292296>>, <<20220601, 296311>>, <<20220701, 296276>>, <<20220801, 296171>>,
       <<20220901, 296808>>, <<20221001, 298012>>, <<20221101, 297711>>, <<20221201, 296797>>,
       <<20230101, 299170>>, <<20230201, 300840>>, <<20230301, 301836>>, <<20230401, 303363>>,
       <<20230501, 304127>>, <<20230601, 305109>>, <<20230701, 305691>>, <<20230801, 307026>>,
       <<20230901, 307789>>, <<20231001, 307671>>, <<20231101, 307671>>, <<20231201, 307671>>,
       <<20240101, 308417>>, <<20240201, 310326>>, <<20240301, 312230>>, <<20240401, 313548>>,
       <<20240501, 313225>>, <<20240601, 313049>>, <<20240701, 313534>>, <<20240801, 314045>>,
       <<20240901, 314069>>, <<20241001, 314616>>, <<20241101, 315620>>, <<20241201, 315441>>,
       <<20250101, 316705>>, <<20250201, 317477>>, <<20250301, 318876>>, <<20250401, 319654>>,
       <<20250501, 320266>>, <<20250601, 320890>> >>

get_cpi_usa ==
    Frame(sort_values([i \in 1..Len(datos_cpi) |->
        [fecha |-> datos_cpi[i][1], cpi |-> Dec(datos_cpi[i][2], 1000)]]))

\* ------------------------------------------------------------------------
\* get_ccl_from_ggal
\* ------------------------------------------------------------------------
\* ggal_adr[['Close']] with reset_index and the columns renamed
UsdFrame(ggal_adr) ==
    [i \in 1..Len(ggal_adr) |->
        [fecha |-> ggal_adr[i].Date, ggal_usd |-> to_numeric(ggal_adr[i].Close)]]

\* ggal_ba[['Close']] with reset_index and the columns renamed
ArsFrame(ggal_ba) ==
    [i \in 1..Len(ggal_ba) |->
        [fecha |-> ggal_ba[i].Date, ggal_ars |-> to_numeric(ggal_ba[i].Close)]]

\* a faulty fallback frame: the last record of the answer is lost
FallbackFrameDropsLast(data_ars) ==
    [i \in 1..(Len(data_ars) - 1) |->
        [fecha |-> data_ars[i].date, ggal_ars |-> to_numeric(data_ars[i].c)]]

\* df_ars_fallback[['date','c']] renamed, fecha parsed
FallbackFrame(data_ars) ==
    [i \in 1..Len(data_ars) |->
        [fecha |-> data_ars[i].date, ggal_ars |-> to_numeric(data_ars[i].c)]]

\* the rows of usd whose fecha is f, joined to the ars row a
MatchesOf(a, usd) ==
    LET hit == SelectRows(usd, LAMBDA u : u.fecha = a.fecha)
    IN  [j \in 1..Len(hit) |->
            [fecha |-> a.fecha, ggal_ars |-> a.ggal_ars, ggal_usd |-> hit[j].ggal_usd]]

\* pd.merge(df_ars, df_usd, on='fecha', how='inner'): the order of the left keys
RECURSIVE merge(_, _)
merge(ars, usd) ==
    IF ars = <<>> THEN <<>>
    ELSE MatchesOf(Head(ars), usd) \o merge(Tail(ars), usd)

\* the rate of one joined row
ccl_nominal(r) == Mul(Div(r.ggal_ars, r.ggal_usd), FromInt(10))

\* the filter on the computed rate
ValidCcl(r) == IsPositive(r.ccl_nominal)

\* Paso 4: join the legs, compute the rate, filter; [df, msg]
Paso4(ars, usd) ==
    IF IsEmpty(ars) \/ IsEmpty(usd)
    THEN [df |-> None, msg |-> "error_empty_frames"]
    ELSE LET df == SelectRows(merge(ars, usd),
                       LAMBDA r : ~IsNaN(r.ggal_ars) /\ ~IsNaN(r.ggal_usd))
         IN  IF IsEmpty(df)
             THEN [df |-> None, msg |-> "error_no_common_dates"]
             ELSE LET calc == [i \in 1..Len(df) |->
                                 [fecha |-> df[i].fecha, ccl_nominal |-> ccl_nominal(df[i])]]
                      df_ccl_f == SelectRows(calc, ValidCcl)
                  IN  IF IsEmpty(df_ccl_f)
                      THEN [df |-> None, msg |-> "error_no_valid_ccl"]
                      ELSE [df |-> Frame(df_ccl_f), msg |-> "none"]

\* ------------------------------------------------------------------------
\* get_ipc_from_datos_gob_ar
\* ------------------------------------------------------------------------
\* dt.to_period('M').dt.to_timestamp(): the first day of the month
MonthStart(t) == (t \div 100) * 100 + 1

fecha_junio_2025 == 20250601

\* (fecha, monthly inflation in tenths of a percent)
datos_2025 ==
    << <<20250101, 22>>, <<20250201, 24>>, <<20250301, 37>>,
       <<20250401, 28>>, <<20250501, 15>>, <<20250601, 16>> >>

\* 1 + inflacion_mensual/100, inflacion_mensual given in tenths of a percent
GrowthFactor(tenths) == Dec(1000 + tenths, 1000)

\* the factor of each entry of datos_2025
factores_2025 == [i \in 1..Len(datos_2025) |-> GrowthFactor(datos_2025[i][2])]

\* a faulty iteration: the entry of the last retrieved month is appended too
ExtendStepFromLastMonth(acc, i, ultimo_dato) ==
    IF datos_2025[i][1] >= ultimo_dato
    THEN LET nuevo == Mul(acc.ipc_actual, factores_2025[i])
         IN  [df |-> Append(acc.df, [fecha |-> datos_2025[i][1], ipc |-> nuevo]),
              ipc_actual |-> nuevo]
    ELSE acc

\* one iteration of the loop over datos_2025, at entry i: acc = [df, ipc_actual]
ExtendStep(acc, i, ultimo_dato) ==
    IF datos_2025[i][1] > ultimo_dato
    THEN LET nuevo == Mul(acc.ipc_actual, factores_2025[i])
         IN  [df |-> Append(acc.df, [fecha |-> datos_2025[i][1], ipc |-> nuevo]),
              ipc_actual |-> nuevo]
    ELSE acc

\* the loop over datos_2025, from [df, ipc_actual] = acc
ExtendLoop(acc, ultimo_dato) ==
    LET after[i \in 0..Len(datos_2025)] ==
            IF i = 0 THEN acc ELSE ExtendStep(after[i - 1], i, ultimo_dato)
    IN  after[Len(datos_2025)]

\* max of a non-empty set of dates
MaxOf(S) == CHOOSE x \in S : \A y \in S : y <= x

\* the retrieved rows: parsed, null rows dropped
IpcParsed(data) ==
    SelectRows([i \in 1..Len(data) |-> [fecha |-> data[i][1], ipc |-> to_numeric(data[i][2])]],
               LAMBDA r : ~IsNaN(r.ipc))

\* month-normalised and sorted
IpcNormalised(rows) ==
    sort_values([i \in 1..Len(rows) |-> [fecha |-> MonthStart(rows[i].fecha), ipc |-> rows[i].ipc]])

\* the part of the function after the sort: the 2025 extension
IpcExtended(df) ==
    LET ultimo_dato == MaxOf({df[i].fecha : i \in 1..Len(df)})
    IN  IF ultimo_dato < fecha_junio_2025
        THEN ExtendLoop([df |-> df, ipc_actual |-> df[Len(df)].ipc], ultimo_dato).df
        ELSE df

\* the whole function on a response [status, data]: [retrieved, df, msgs],
\* retrieved being the frame before the extension (empty on failure)
get_ipc_from_datos_gob_ar(response) ==
    IF response.status = "unavailable"
    THEN [retrieved |-> <<>>, df |-> None, msgs |-> {"error_ipc_connect"}]
    ELSE IF response.status = "no_data_field"
    THEN [retrieved |-> <<>>, df |-> None, msgs |-> {"error_ipc_processing"}]
    ELSE LET parsed == IpcParsed(response.data)
         IN  IF IsEmpty(parsed)
             THEN [retrieved |-> <<>>, df |-> None, msgs |-> {"error_ipc_processing"}]
             ELSE LET df == IpcNormalised(parsed)
                  IN  [retrieved |-> df,
                       df |-> Frame(IpcExtended(df)),
                       msgs |-> IF MaxOf({df[i].fecha : i \in 1..Len(df)}) < fecha_junio_2025
                                THEN {"info_ipc_extended"} ELSE {}]

\* ------------------------------------------------------------------------
\* The aligner: merge_asof, dropna, the anchor and the adjustment
\* ------------------------------------------------------------------------
\* a faulty lookup: the first row of right with fecha <= d
AsofIndexEarliest(right, d) ==
    LET ok == {j \in 1..Len(right) : right[j].fecha <= d}
    IN  IF ok = {} THEN 0 ELSE CHOOSE j \in ok : \A j2 \in ok : j <= j2

\* index of the last row of right with fecha <= d, 0 if none: right is
\* sorted, so the rows with fecha <= d are its first rows
AsofIndex(right, d) == Cardinality({j \in 1..Len(right) : right[j].fecha <= d})

\* pd.merge_asof(left, right, on='fecha', direction='backward'): every left
\* row, with the value column col of the matched right row or NaN
merge_asof(left, right, col) ==
    [i \in 1..Len(left) |->
        LET j == AsofIndex(right, left[i].fecha)
        IN  [fecha |-> left[i].fecha, ccl_nominal |-> left[i].ccl_nominal,
             indice |-> IF j = 0 THEN NaN ELSE right[j][col]]]

\* df_merged.dropna()
dropna(rows) == SelectRows(rows, LAMBDA r : ~IsNaN(r.ccl_nominal) /\ ~IsNaN(r.indice))

\* inflacion_actual as the pipeline takes it
AnchorOf(merged, inflacion) == merged[Len(merged)].indice

\* ccl_nominal * (inflacion_actual / indice)
ccl_ajustado(r, anchor) == Mul(r.ccl_nominal, Div(anchor, r.indice))

\* ------------------------------------------------------------------------
\* Bounds and the provider responses the model draws from
\* ------------------------------------------------------------------------
MaxLegLen == 2

MaxIpcLen == 2

\* trading days: one before and one after June 2025
LegDates == {20250410, 20250710}

UsdCloses == {RawNull, RawNum(2)}

ArsCloses == {RawNum(0), RawNum(2), RawNum(3)}

\* publication dates of the index, two of them in the same month
IpcDates == {20241215, 20250301, 20250315, 20250601}

IpcValues == {RawNull, RawNum(0), RawNum(2)}

SeqsUpTo(S, n) == UNION {[1..k -> S] : k \in 0..n}

\* yfinance answers: an exception, or a (possibly empty) price table
YfResponses(closes) ==
    {[status |-> "error", rows |-> <<>>]} \cup
    {[status |-> "ok", rows |-> r] :
        r \in SeqsUpTo([Date : LegDates, Close : closes], MaxLegLen)}

\* data912 answers: a failed request, or a JSON list of {date, c}
Data912Responses ==
    {[status |-> "error", rows |-> <<>>]} \cup
    {[status |-> "ok", rows |-> r] :
        r \in SeqsUpTo([date : LegDates, c : ArsCloses], MaxLegLen)}

\* datos.gob.ar answers: a failed request, a body without 'data', or the
\* list of [fecha, ipc] pairs
IpcResponses ==
    {[status |-> "unavailable", data |-> <<>>], [status |-> "no_data_field", data |-> <<>>]} \cup
    {[status |-> "ok", data |-> d] : d \in SeqsUpTo(IpcDates \X IpcValues, MaxIpcLen)}

\* what get_ipc_from_datos_gob_ar returns over all the answers
IpcOutcomes == {get_ipc_from_datos_gob_ar(resp) : resp \in IpcResponses}

\* the functions the script defines before the pipeline runs
DefinedFunctions == {"get_cpi_usa", "get_ccl_from_ggal", "get_ipc_from_datos_gob_ar"}

\* the callable invoked for the nominal series: the name the pipeline
\* writes (which the file never defines), or the composer the file defines
ComposerNames == {"get_ccl_from_ypf", "get_ccl_from_ggal"}

\* ------------------------------------------------------------------------
\* State
\* ------------------------------------------------------------------------
VARIABLES
    pc,                 \* position of the run
    composer,           \* the name called for the nominal series
    requests,           \* the sources requested so far, in order
    messages,           \* st.error / st.warning / st.info emitted so far
    df_usd, df_ars,     \* locals of get_ccl_from_ggal
    data_ars,           \* the fallback answer as received (local)
    df_ccl,             \* the composer's result (None or a frame)
    columna_inflacion,  \* "ipc" or "cpi" once the index is selected
    ipc_retrieved,      \* the IPC frame before the extension (local of the provider)
    df_inflacion,       \* the index provider's result (None or a frame)
    df_merged,          \* the joined rows, with ccl_ajustado once computed
    inflacion_actual,   \* the anchor
    chart, table        \* what has been rendered

vars == <<pc, composer, requests, messages, df_usd, df_ars, data_ars, df_ccl,
          columna_inflacion, ipc_retrieved, df_inflacion, df_merged, inflacion_actual, chart, table>>

Init ==
    /\ pc = "start"
    /\ composer \in ComposerNames
    /\ requests = <<>>
    /\ messages = {}
    /\ df_usd = None
    /\ df_ars = None
    /\ data_ars = None
    /\ df_ccl = None
    /\ columna_inflacion = "none"
    /\ ipc_retrieved = <<>>
    /\ df_inflacion = None
    /\ df_merged = <<>>
    /\ inflacion_actual = NaN
    /\ chart = FALSE
    /\ table = FALSE

\* line 267: the call of the composer; an undefined name raises NameError,
\* which nothing catches: the script run ends there
CallComposer ==
    /\ pc = "start"
    /\ IF composer \in DefinedFunctions
       THEN /\ pc' = "paso1"
            /\ UNCHANGED messages
       ELSE /\ pc' = "crashed"
            /\ messages' = messages \cup {"NameError"}
    /\ UNCHANGED <<composer, requests, df_usd, df_ars, data_ars, df_ccl, columna_inflacion,
                   ipc_retrieved, df_inflacion, df_merged, inflacion_actual, chart, table>>

\* the return of get_ccl_from_ggal through Paso 4
ReturnPaso4(ars, usd) ==
    LET r == Paso4(ars, usd)
    IN  /\ df_ccl' = r.df
        /\ messages' = messages \cup (IF r.msg = "none" THEN {} ELSE {r.msg})
        /\ pc' = "composer_returned"

\* a faulty Paso 1: a failed USD leg does not end the composer
Paso1Continues(resp) ==
    /\ pc = "paso1"
    /\ requests' = Append(requests, "GGAL")
    /\ IF resp.status = "error" \/ IsEmpty(resp.rows)
       THEN /\ messages' = messages \cup {"error_usd"}
            /\ df_ccl' = None
            /\ pc' = "paso2"
            /\ UNCHANGED df_usd
       ELSE /\ df_usd' = Frame(UsdFrame(resp.rows))
            /\ pc' = "paso2"
            /\ UNCHANGED <<messages, df_ccl>>
    /\ UNCHANGED <<composer, df_ars, data_ars, columna_inflacion, ipc_retrieved, df_inflacion,
                   df_merged, inflacion_actual, chart, table>>

\* Paso 1: the ADR in USD
Paso1(resp) ==
    /\ pc = "paso1"
    /\ requests' = Append(requests, "GGAL")
    /\ IF resp.status = "error" \/ IsEmpty(resp.rows)
       THEN /\ messages' = messages \cup {"error_usd"}
            /\ df_ccl' = None
            /\ pc' = "composer_returned"
            /\ UNCHANGED df_usd
       ELSE /\ df_usd' = Frame(UsdFrame(resp.rows))
            /\ pc' = "paso2"
            /\ UNCHANGED <<messages, df_ccl>>
    /\ UNCHANGED <<composer, df_ars, data_ars, columna_inflacion, ipc_retrieved, df_inflacion, df_merged,
                   inflacion_actual, chart, table>>

\* Paso 2: the local share in ARS from the primary source
Paso2(resp) ==
    /\ pc = "paso2"
    /\ requests' = Append(requests, "GGAL.BA")
    /\ IF resp.status = "error" \/ IsEmpty(resp.rows)
       THEN /\ messages' = messages \cup {"warning_fallback"}
            /\ pc' = "paso3"
            /\ UNCHANGED <<df_ars, df_ccl>>
       ELSE /\ df_ars' = Frame(ArsFrame(resp.rows))
            /\ ReturnPaso4(ArsFrame(resp.rows), df_usd.rows)
    /\ UNCHANGED <<composer, df_usd, data_ars, columna_inflacion, ipc_retrieved, df_inflacion, df_merged,
                   inflacion_actual, chart, table>>

\* Paso 3: the local share in ARS from the fallback source
Paso3(resp) ==
    /\ pc = "paso3"
    /\ requests' = Append(requests, "data912")
    /\ IF resp.status = "error" \/ IsEmpty(resp.rows)
       THEN /\ messages' = messages \cup {"error_fallback"}
            /\ df_ccl' = None
            /\ pc' = "composer_returned"
            /\ UNCHANGED <<df_ars, data_ars>>
       ELSE /\ data_ars' = Frame(resp.rows)
            /\ df_ars' = Frame(FallbackFrame(resp.rows))
            /\ ReturnPaso4(FallbackFrame(resp.rows), df_usd.rows)
    /\ UNCHANGED <<composer, df_usd, columna_inflacion, ipc_retrieved, df_inflacion, df_merged,
                   inflacion_actual, chart, table>>

\* line 267: the result is bound to df_ccl, the composer's frame is gone
BindCcl ==
    /\ pc = "composer_returned"
    /\ pc' = "select_index"
    /\ df_usd' = None /\ df_ars' = None /\ data_ars' = None
    /\ UNCHANGED <<composer, requests, messages, df_ccl, columna_inflacion, ipc_retrieved, df_inflacion,
                   df_merged, inflacion_actual, chart, table>>

\* lines 270-273: the checkbox is ticked, the index is the CPI table
CallCpi ==
    /\ pc = "select_index"
    /\ columna_inflacion' = "cpi"
    /\ df_inflacion' = get_cpi_usa
    /\ messages' = messages \cup {"info_cpi"}
    /\ pc' = "align"
    /\ UNCHANGED <<composer, requests, df_usd, df_ars, data_ars, df_ccl, ipc_retrieved,
                   df_merged, inflacion_actual, chart, table>>

\* lines 274-277: the checkbox is not ticked, the index is the IPC; out is
\* what the provider returns on the answer it got
CallIpc(out) ==
    /\ pc = "select_index"
    /\ columna_inflacion' = "ipc"
    /\ ipc_retrieved' = out.retrieved
    /\ df_inflacion' = out.df
    /\ messages' = messages \cup out.msgs
    /\ requests' = Append(requests, "datos.gob.ar")
    /\ pc' = "align"
    /\ UNCHANGED <<composer, df_usd, df_ars, data_ars, df_ccl, df_merged,
                   inflacion_actual, chart, table>>

\* lines 279-366: the guard, the join, the adjustment and the rendering
Align ==
    /\ pc = "align"
    /\ pc' = "done"
    /\ IF df_ccl.some /\ df_inflacion.some /\ ~IsEmpty(df_ccl.rows) /\ ~IsEmpty(df_inflacion.rows)
       THEN LET joined == dropna(merge_asof(sort_values(df_ccl.rows),
                                            sort_values(df_inflacion.rows),
                                            columna_inflacion))
            IN  IF IsEmpty(joined)
                THEN /\ messages' = messages \cup {"error_no_overlap"}
                     /\ df_merged' = joined
                     /\ UNCHANGED <<inflacion_actual, chart, table>>
                ELSE LET anchor == AnchorOf(joined, df_inflacion.rows)
                     IN  /\ inflacion_actual' = anchor
                         /\ df_merged' = [i \in 1..Len(joined) |->
                               [fecha |-> joined[i].fecha,
                                ccl_nominal |-> joined[i].ccl_nominal,
                                indice |-> joined[i].indice,
                                ccl_ajustado |-> ccl_ajustado(joined[i], anchor)]]
                         /\ chart' = TRUE
                         /\ table' = TRUE
                         /\ UNCHANGED messages
       ELSE /\ messages' = messages \cup {"error_load"}
            /\ UNCHANGED <<df_merged, inflacion_actual, chart, table>>
    /\ UNCHANGED <<composer, requests, df_usd, df_ars, data_ars, df_ccl, columna_inflacion,
                   ipc_retrieved, df_inflacion>>

Next ==
    \/ CallComposer
    \/ \E resp \in YfResponses(UsdCloses) : Paso1(resp)
    \/ \E resp \in YfResponses(ArsCloses) : Paso2(resp)
    \/ \E resp \in Data912Responses : Paso3(resp)
    \/ BindCcl
    \/ CallCpi
    \/ \E out \in IpcOutcomes : CallIpc(out)
    \/ Align

Spec == Init /\ [][Next]_vars

\* ------------------------------------------------------------------------
\* Vocabulary of the properties
\* ------------------------------------------------------------------------
\* the pipeline passed the guard of line 279
GuardPassed ==
    /\ df_ccl.some /\ df_inflacion.some
    /\ ~IsEmpty(df_ccl.rows) /\ ~IsEmpty(df_inflacion.rows)

\* the adjusted rows have been computed and rendered
Adjusted == pc = "done" /\ chart

FechasOf(rows) == {rows[i].fecha : i \in 1..Len(rows)}

\* number of rows of a frame satisfying P
CountIf(rows, P(_)) == Cardinality({i \in 1..Len(rows) : P(rows[i])})

Ascending(rows) == \A i \in 1..(Len(rows) - 1) : rows[i].fecha <= rows[i + 1].fecha

UniqueFechas(rows) == \A i, j \in 1..Len(rows) : rows[i].fecha = rows[j].fecha => i = j

\* the chronologically last observation of the index series (the last row
\* among those with the greatest fecha)
LastIndexObs ==
    LET R == df_inflacion.rows
        top == MaxOf(FechasOf(R))
    IN  R[MaxOf({i \in 1..Len(R) : R[i].fecha = top})]

ErrorMessages ==
    {"NameError", "error_usd", "error_fallback", "error_empty_frames", "error_no_common_dates",
     "error_no_valid_ccl", "error_ipc_connect", "error_ipc_processing", "error_no_overlap",
     "error_load"}

\* the pairs (i, j) of an ARS row and a USD row of the same date that give
\* a positive rate
RatePairs(ars, usd) ==
    {p \in (1..Len(ars)) \X (1..Len(usd)) :
        /\ ars[p[1]].fecha = usd[p[2]].fecha
        /\ IsPositive(Mul(Div(ars[p[1]].ggal_ars, usd[p[2]].ggal_usd), FromInt(10)))}

\* position of the pair p among pairs, ARS row first, then USD row
PairRank(pairs, p) ==
    1 + Cardinality({q \in pairs : q[1] < p[1] \/ (q[1] = p[1] /\ q[2] < p[2])})

\* result is the composition of the legs ars and usd: failure when no pair of
\* rows gives a rate, else one row per pair, in the order of the ARS leg
IsCompositionOf(result, ars, usd) ==
    LET pairs == RatePairs(ars, usd)
    IN  IF pairs = {} THEN ~result.some
        ELSE /\ result.some
             /\ Len(result.rows) = Cardinality(pairs)
             /\ \A p \in pairs :
                   result.rows[PairRank(pairs, p)] =
                       [fecha |-> ars[p[1]].fecha,
                        ccl_nominal |-> Mul(Div(ars[p[1]].ggal_ars, usd[p[2]].ggal_usd),
                                            FromInt(10))]

\* the requests of the composer, in order
ComposerRequests == SelectSeq(requests, LAMBDA r : r \in {"GGAL", "GGAL.BA", "data912"})

\* ------------------------------------------------------------------------
\* C1: in the adjust step the anchor is the value of the chronologically last
\* observation of the index series itself, whatever the join kept: every
\* adjusted row has ccl_ajustado = ccl_nominal * (last index value / its
\* index value), also when the nominal series ends before the index series.
\* ------------------------------------------------------------------------
C1_AnchorIsLastIndexObservation ==
    Adjusted =>
        \A i \in 1..Len(df_merged) :
            df_merged[i].ccl_ajustado =
                Mul(df_merged[i].ccl_nominal,
                    Div(LastIndexObs[columna_inflacion], df_merged[i].indice))

\* ------------------------------------------------------------------------
\* C2: as-of backward join: every joined row is a nominal row carrying an
\* index observation of the greatest index date <= its date; a nominal row
\* is absent exactly when no index date <= its date exists; no other row is
\* dropped and none is invented.
\* ------------------------------------------------------------------------
C2_AsofBackwardJoin ==
    (pc = "done" /\ GuardPassed) =>
        LET L == df_ccl.rows
            R == df_inflacion.rows
            Covered(d) == \E j \in 1..Len(R) : R[j].fecha <= d
            Key(r) == [fecha |-> r.fecha, ccl_nominal |-> r.ccl_nominal]
            Keys == {Key(L[i]) : i \in 1..Len(L)} \cup {Key(df_merged[i]) : i \in 1..Len(df_merged)}
        IN  /\ \A i \in 1..Len(df_merged) :
                  \E j \in 1..Len(R) :
                      /\ R[j][columna_inflacion] = df_merged[i].indice
                      /\ R[j].fecha <= df_merged[i].fecha
                      /\ ~\E j2 \in 1..Len(R) :
                            R[j2].fecha <= df_merged[i].fecha /\ R[j2].fecha > R[j].fecha
            /\ \A key \in Keys :
                  CountIf(df_merged, LAMBDA r : Key(r) = key) =
                      IF Covered(key.fecha) THEN CountIf(L, LAMBDA r : Key(r) = key) ELSE 0

\* a leading nominal row was dropped and a later one joined to an index
\* observation of an earlier date
C2_Witness ==
    /\ pc = "done" /\ GuardPassed
    /\ Len(df_merged) >= 1
    /\ Len(df_merged) < Len(df_ccl.rows)
    /\ \E j \in 1..Len(df_inflacion.rows) :
          /\ df_inflacion.rows[j].fecha < df_merged[1].fecha
          /\ df_inflacion.rows[j][columna_inflacion] # df_merged[1].indice

\* ------------------------------------------------------------------------
\* C3: filtering invariant: every series handed to the aligner (the composed
\* nominal series and the price-index series) holds only strictly positive
\* values and no two observations of the same date.
\* ------------------------------------------------------------------------
C3_FilteringInvariant ==
    pc = "align" =>
        /\ df_ccl.some =>
              /\ \A i \in 1..Len(df_ccl.rows) : IsPositive(df_ccl.rows[i].ccl_nominal)
              /\ UniqueFechas(df_ccl.rows)
        /\ df_inflacion.some =>
              /\ \A i \in 1..Len(df_inflacion.rows) :
                    IsPositive(df_inflacion.rows[i][columna_inflacion])
              /\ UniqueFechas(df_inflacion.rows)

\* ------------------------------------------------------------------------
\* C4: a run ends with the chart and the table rendered exactly when no stage
\* failed (the composer and the index provider returned a series, neither is
\* empty and the join kept a row); after a failure nothing is rendered and an
\* error message is shown.
\* ------------------------------------------------------------------------
StageFailed ==
    \/ ComposerRequests # <<>> /\ ~df_ccl.some
    \/ columna_inflacion # "none" /\ ~df_inflacion.some
    \/ df_ccl.some /\ IsEmpty(df_ccl.rows)
    \/ df_inflacion.some /\ IsEmpty(df_inflacion.rows)
    \/ pc = "done" /\ GuardPassed /\ IsEmpty(df_merged)

\* C4: rendering if and only if no stage failed, an error shown otherwise
C4_RenderIffNoStageFailed ==
    pc \in {"done", "crashed"} =>
        IF StageFailed
        THEN ~chart /\ ~table /\ messages \cap ErrorMessages # {}
        ELSE chart /\ table

\* ------------------------------------------------------------------------
\* C5: fallback of the composer: when the USD leg succeeds, the primary ARS
\* source fails and the fallback succeeds, the result is the composition of
\* the USD leg with the fallback data alone, and a warning reports the
\* fallback; when the primary ARS source succeeds the fallback is not
\* consulted and the result is the composition with the primary data.
\* ------------------------------------------------------------------------
C5_FallbackBehaviour ==
    (pc = "composer_returned" /\ df_usd.some) =>
        /\ data_ars.some =>
              /\ "warning_fallback" \in messages
              /\ ComposerRequests = <<"GGAL", "GGAL.BA", "data912">>
              /\ IsCompositionOf(df_ccl,
                    [i \in 1..Len(data_ars.rows) |->
                        [fecha |-> data_ars.rows[i].date,
                         ggal_ars |-> to_numeric(data_ars.rows[i].c)]],
                    df_usd.rows)
        /\ (df_ars.some /\ ~data_ars.some) =>
              /\ "warning_fallback" \notin messages
              /\ ComposerRequests = <<"GGAL", "GGAL.BA">>
              /\ IsCompositionOf(df_ccl, df_ars.rows, df_usd.rows)
        /\ (~df_ars.some) => ~df_ccl.some

\* the fallback was used and gave a series of two rows
C5_Witness ==
    /\ pc = "composer_returned"
    /\ data_ars.some
    /\ df_ccl.some
    /\ Len(df_ccl.rows) = 2
    /\ df_ccl.rows[1].ccl_nominal # df_ccl.rows[2].ccl_nominal

\* ------------------------------------------------------------------------
\* C6: gap-filling of the IPC: when the retrieved series ends at month M
\* before the cutoff, the returned series is the retrieved series followed by
\* one synthesized row per table entry dated after M, in table order, each
\* equal to the previous row's index times (1 + pct/100); entries dated at or
\* before M add no row, the retrieved rows are returned unchanged and no
\* synthesized row is dated at or before a retrieved row.
\* ------------------------------------------------------------------------
C6_GapFilling ==
    (pc = "align" /\ columna_inflacion = "ipc" /\ df_inflacion.some) =>
        LET R == ipc_retrieved
            D == df_inflacion.rows
            M == MaxOf(FechasOf(R))
            later == IF M < fecha_junio_2025
                     THEN {i \in 1..Len(datos_2025) : datos_2025[i][1] > M}
                     ELSE {}
            k == Cardinality(later)
            nth(n) == CHOOSE i \in later : Cardinality({j \in later : j < i}) = n - 1
        IN  /\ Len(D) = Len(R) + k
            /\ SubSeq(D, 1, Len(R)) = R
            /\ \A n \in 1..k :
                  /\ D[Len(R) + n].fecha = datos_2025[nth(n)][1]
                  /\ D[Len(R) + n].fecha > M
                  /\ D[Len(R) + n].ipc =
                        Mul(D[Len(R) + n - 1].ipc, Dec(1000 + datos_2025[nth(n)][2], 1000))

\* two retrieved rows of March 2025, extended by April, May and June
C6_Witness ==
    /\ pc = "align" /\ columna_inflacion = "ipc" /\ df_inflacion.some
    /\ Len(ipc_retrieved) = 2
    /\ ipc_retrieved[2].fecha = 20250301
    /\ IsPositive(ipc_retrieved[2].ipc)
    /\ Len(df_inflacion.rows) = 5
    /\ df_inflacion.rows[5].fecha = fecha_junio_2025

\* ------------------------------------------------------------------------
\* C7: ratio composition: the composed series has exactly one row for each
\* date present in both legs, with rate = (ars / usd) * 10 of that date, rows
\* whose rate is not positive being discarded; with no common date or no
\* positive rate the composer returns failure.
\* ------------------------------------------------------------------------
C7_RatioComposition ==
    (pc = "composer_returned" /\ df_usd.some /\ df_ars.some) =>
        LET A == df_ars.rows
            U == df_usd.rows
            Rates(d) == {Mul(Div(A[i].ggal_ars, U[j].ggal_usd), FromInt(10)) :
                            <<i, j>> \in {q \in (1..Len(A)) \X (1..Len(U)) :
                                            A[q[1]].fecha = d /\ U[q[2]].fecha = d}}
            Good(d) == {r \in Rates(d) : IsPositive(r)}
            Dates == FechasOf(A) \cup FechasOf(U)
        IN  IF \A d \in Dates : Good(d) = {}
            THEN ~df_ccl.some
            ELSE /\ df_ccl.some
                 /\ \A i \in 1..Len(df_ccl.rows) :
                       df_ccl.rows[i].ccl_nominal \in Good(df_ccl.rows[i].fecha)
                 /\ \A d \in Dates :
                       CountIf(df_ccl.rows, LAMBDA r : r.fecha = d) =
                           IF Good(d) = {} THEN 0 ELSE 1

\* ------------------------------------------------------------------------
\* C8: sort invariant: the nominal series returned by the composer, the
\* index series returned by the provider and the adjusted rows are each
\* ascending by date.
\* ------------------------------------------------------------------------
C8_SortInvariant ==
    /\ (pc = "composer_returned" /\ df_ccl.some) => Ascending(df_ccl.rows)
    /\ (pc = "align" /\ df_inflacion.some) => Ascending(df_inflacion.rows)
    /\ pc = "done" => Ascending(df_merged)

\* ------------------------------------------------------------------------
\* C9: request ordering of the composer: each source is requested at most
\* once, in the order USD leg, primary ARS, fallback ARS; the fallback only
\* after the primary failed; after a failure of the USD leg the composer has
\* returned failure and no ARS source is requested.
\* ------------------------------------------------------------------------
C9_RequestOrdering ==
    /\ ComposerRequests \in {<<>>, <<"GGAL">>, <<"GGAL", "GGAL.BA">>,
                              <<"GGAL", "GGAL.BA", "data912">>}
    /\ Len(ComposerRequests) = 3 => "warning_fallback" \in messages
    /\ "warning_fallback" \in messages => Len(ComposerRequests) >= 2 /\ pc # "paso2"
    /\ "error_usd" \in messages =>
          /\ ComposerRequests = <<"GGAL">>
          /\ pc \notin {"paso1", "paso2", "paso3"}
          /\ ~df_ccl.some

\* the three sources were requested, the fallback last
C9_Witness ==
    /\ pc = "composer_returned"
    /\ ComposerRequests = <<"GGAL", "GGAL.BA", "data912">>
    /\ df_ccl.some

\* ------------------------------------------------------------------------
\* C10: anchor identity: every adjusted row joined to the last observation
\* of the index series (its date is not before that observation's date) has
\* ccl_ajustado = ccl_nominal.
\* ------------------------------------------------------------------------
C10_AnchorIdentity ==
    Adjusted =>
        \A i \in 1..Len(df_merged) :
            df_merged[i].fecha >= LastIndexObs.fecha =>
                df_merged[i].ccl_ajustado = df_merged[i].ccl_nominal

====
